---- MODULE Spec2Model ----
(***************************************************************************)
(* BCX carbon-credit registry: the server actions of src/actions/actions.ts *)
(* over the tables of the SQL schema (src/unnamed/part_000).                *)
(*                                                                         *)
(* The database is the shared state.  Every server action is an async      *)
(* function; each `await` of a Prisma call is one atomic database step,    *)
(* and a prisma.$transaction is one atomic step that either applies all    *)
(* of its writes or none.  Callers run concurrently: a caller that sits    *)
(* between two awaits of one action is "in flight" and other callers may   *)
(* take steps in between.                                                  *)
(***************************************************************************)
EXTENDS Integers, Sequences, FiniteSets, TLC

\* ------------------------------------------------------------------ bounds

\* Number of concurrent callers of the server actions.
NumCallers == 2
\* Largest number of rows of the transactions table and of the
\* compliance_alerts table (both only ever grow).
MaxRows == 2
\* Largest quantity passed to purchaseCredits / retireCredits.
MaxQty == 2
\* Largest totalCredits / availableCredits passed to registerProject.
MaxCredits == 1
\* Number of milliseconds the clock advances over one behaviour.
MaxTicks == 1
\* Date.now() at the start, in milliseconds counted from a multiple of 10^4
\* (only the last four digits of the clock reach the database).  It starts
\* just below a wrap of those digits.
ClockStart == 9998
\* Rows of the ledgers that getLedgerTransactions pages through, their
\* timestamps, and the largest page and page size asked for.
MaxEntries == 3
MaxStamp == 3
MaxPage == 3
MaxPageSize == 2
\* Descriptions match none of the patterns of a rule set, MaxMatched
\* patterns of each of its rules, or all of its patterns.
MaxMatched == 1
\* Math.random() is sampled at JitterSteps + 1 points from its smallest to
\* its largest value.
JitterSteps == 1

\* ------------------------------------------------------- program constants

\* Math.min(quantity, 5): the cap on the number of batches of one issuance.
BatchCap == 5
\* projectId.toUpperCase().slice(0, 6)
SerialPrefixLen == 6
\* String(Date.now() + i).slice(-4)
SerialSuffixLen == 4

\* integrity-score.ts
BASE_SCORE == 45
MIN_SCORE == 30
MAX_SCORE == 95
JITTER_RANGE == 10
\* Scores before rounding are kept in tenths: KEYWORD_SCALING = 1.20 is 12
\* tenths per keyword point.
Tenths == 10
KEYWORD_SCALING == 12
\* The weighted sum is kept in hundredths (the weights have two decimals),
\* the adjusted score in thousandths (hundredths times 0.6).
Hundredths == 100
Thousandths == 1000

\* ------------------------------------------------------------------ domains

Callers == 1..NumCallers

\* Ids given to new carbon_projects rows, in the order they are generated.
\* They are spelled out as character sequences because the serial number is
\* built from the first six characters of the id.
ProjectIdOrder == <<"cmprj0a", "cmprj0b">>

ProjectIds == {ProjectIdOrder[i] : i \in 1..Len(ProjectIdOrder)}

\* The project of the seed that the seeded specification works on.
SeedProjectIds == {"prj001"}

IdChars(id) ==
  CASE id = "cmprj0a" -> <<"c", "m", "p", "r", "j", "0", "a">>
    [] id = "cmprj0b" -> <<"c", "m", "p", "r", "j", "0", "b">>
    [] id = "prj001" -> <<"p", "r", "j", "0", "0", "1">>

\* Rows of the users table (created by the registration endpoint).
Developers == {"dev"}
Buyers == {"b1", "b2"}
Users == Developers \cup Buyers

\* What a caller may pass as buyerId: the id of a buyer, or an id that no
\* users row carries.
BuyerIds == Buyers \cup {"nobody"}

Reasons == {"offset"}

Quantities == -1..MaxQty
IssueQuantities == {0, 1, BatchCap + 1}
Prices == {100}
\* carbon_projects.integrityScore: 0 by default, 92 for the seeded project.
IntegrityScores == {0, 92}
Vintages == {2024}
\* CREATE TYPE "CreditStatus": the statuses of a batch, in the order of its
\* life.
CreditStatus == <<"issued", "traded", "retired">>
\* transactions.timestamp
Timestamps == 1..MaxStamp
\* The arguments of getLedgerTransactions.
Pages == 1..MaxPage
PageSizes == 1..MaxPageSize

\* The `data` argument of registerProject: totalCredits and availableCredits
\* are optional (Partial<CarbonProject>); an absent field is an absent key.
RegisterInputs ==
  {[developerId |-> d, pricePerCredit |-> pr, vintage |-> v] :
     d \in Developers, pr \in Prices, v \in Vintages}
  \cup {[developerId |-> d, pricePerCredit |-> pr, vintage |-> v, totalCredits |-> t] :
     d \in Developers, pr \in Prices, v \in Vintages, t \in 0..MaxCredits}
  \cup {[developerId |-> d, pricePerCredit |-> pr, vintage |-> v, totalCredits |-> t,
         availableCredits |-> a] :
     d \in Developers, pr \in Prices, v \in Vintages, t \in 0..MaxCredits,
     a \in 0..MaxCredits}

\* A missing project reported with the message of another failure.
ErrMisreported == "Not enough credits available."

ErrNotFound == "Project not found."

ErrNotEnough == "Not enough credits available."

ErrDatabase == "database error"

VARIABLES
  projects,   \* carbon_projects: id -> row (only the ids that exist)
  credits,    \* carbon_credits: sequence of rows in insertion order
  ledger,     \* transactions: sequence of rows in insertion order
  holdings,   \* buyer_holdings: <<buyerId, projectId>> -> row
  alerts,     \* compliance_alerts: sequence of rows in insertion order
  now,        \* the latest reading of Date.now() (only issueCredits reads the clock)
  pc,         \* per caller: "idle", or "commit" between the two awaits of purchaseCredits
  call,       \* per caller: the arguments and locals of its purchaseCredits call in flight
  ret         \* what the call that returned last gave its caller

vars == <<projects, credits, ledger, holdings, alerts, now, pc, call, ret>>


\* ------------------------------------------------------------------ helpers

Min(a, b) == IF a < b THEN a ELSE b


RECURSIVE SumQuantity(_)
SumQuantity(s) == IF s = <<>> THEN 0 ELSE s[1].quantity + SumQuantity(Tail(s))

RECURSIVE SelectRows(_, _, _)
SelectRows(s, type, projectId) ==
  IF s = <<>> THEN <<>>
  ELSE IF s[1].type = type /\ s[1].projectId = projectId
       THEN <<s[1]>> \o SelectRows(Tail(s), type, projectId)
       ELSE SelectRows(Tail(s), type, projectId)

RECURSIVE SumHoldings(_, _)
SumHoldings(keys, h) ==
  IF keys = {} THEN 0
  ELSE LET k == CHOOSE x \in keys : TRUE
       IN h[k].quantity + SumHoldings(keys \ {k}, h)

HoldingsOf(projectId) == {k \in DOMAIN holdings : k[2] = projectId}

NoCall ==
  [projectId |-> "", quantity |-> 0, buyerId |-> "",
   seenAvailable |-> 0, seenPrice |-> 0, seenDeveloper |-> ""]

\* No call has returned yet.  A field a result does not carry holds the
\* value it has here.
NoResult ==
  [status |-> "none", error |-> "", projectId |-> "", transactionId |-> 0,
   serialNumbers |-> <<>>, transactions |-> <<>>, total |-> 0,
   score |-> 0, parameters |-> <<>>]

\* { success: true } is status "ok"; { success: false, error } is "fail"; a
\* rejected promise (an exception that no catch handles) is "threw".
Returned(status, error) == [NoResult EXCEPT !.status = status, !.error = error]

\* { success: true, projectId }
ReturnedProject(id) == [Returned("ok", "") EXCEPT !.projectId = id]

\* { success: true, transactionId } and { success: true, retirementId }
ReturnedTransaction(id) == [Returned("ok", "") EXCEPT !.transactionId = id]

\* { success: true, serialNumbers }
ReturnedSerials(serials) == [Returned("ok", "") EXCEPT !.serialNumbers = serials]

\* { transactions, total }
ReturnedPage(transactions, total) ==
  [Returned("ok", "") EXCEPT !.transactions = transactions, !.total = total]

\* { score, parameters }
ReturnedScore(score, parameters) ==
  [Returned("ok", "") EXCEPT !.score = score, !.parameters = parameters]

\* An insert that puts the new row in front of the rows already there.
InsertTransactionInFront(rows, row) == <<row>> \o rows

\* prisma.transaction.create: the ledger only ever gets a row at its end.
InsertTransaction(rows, row) == Append(rows, row)

\* Calls in flight: each will append one row to the ledger when it commits.
InFlight == {s \in Callers : pc[s] = "commit"}

\* Callers are interchangeable: a new purchaseCredits call is held by the
\* first caller that is not in flight.
NextCaller == CHOOSE s \in Callers \ InFlight : \A u \in Callers \ InFlight : s <= u

\* ---------------------------------------------------------------- seed data

\* prisma/seed.ts, the rows about project prj001 (the operations on one
\* project read and write no row of another project, and no seeded serial
\* of another project starts with BCX-PRJ001).  Ids of ledger rows are
\* their positions in the table.
SeedProjects ==
  "prj001" :> [developerId |-> "dev", vintage |-> 2024, totalCredits |-> 50000,
               availableCredits |-> 32000, pricePerCredit |-> 850, status |-> "active",
               integrityScore |-> 92]

SeedCredits ==
  <<[projectId |-> "prj001",
     serialNumber |-> <<"BCX", <<"P", "R", "J", "0", "0", "1">>, 2024, <<0, 0, 0, 1>>>>,
     vintage |-> 2024, quantity |-> 5000, status |-> "issued", issuedToId |-> "dev"],
    [projectId |-> "prj001",
     serialNumber |-> <<"BCX", <<"P", "R", "J", "0", "0", "1">>, 2024, <<0, 0, 0, 2>>>>,
     vintage |-> 2024, quantity |-> 5000, status |-> "issued", issuedToId |-> "dev"]>>

SeedLedger ==
  <<[id |-> 1, type |-> "purchase", projectId |-> "prj001", fromUserId |-> "dev",
     toUserId |-> "b1", quantity |-> 5000, pricePerCredit |-> 820,
     totalValue |-> 4100000, status |-> "confirmed"],
    [id |-> 2, type |-> "retirement", projectId |-> "prj001", toUserId |-> "b1",
     quantity |-> 2000, status |-> "confirmed"]>>

SeedHoldings == <<"b1", "prj001">> :> [quantity |-> 3000, avgPrice |-> 820]

\* Rows a table held before the first call: those of the seed if the
\* database was seeded, none otherwise.
Seeded == SeedProjectIds \subseteq DOMAIN projects

SeededLedgerRows == IF Seeded THEN Len(SeedLedger) ELSE 0

\* The model stops accepting calls that would make a table grow by more
\* than MaxRows rows.
RoomInLedger == (Len(ledger) - SeededLedgerRows) + Cardinality(InFlight) < MaxRows

RoomInAlerts == Len(alerts) < MaxRows

\* A call that runs from its first await to its return in one step: it
\* leaves no caller in flight.
AtomicCall(r) ==
  /\ ret' = r
  /\ UNCHANGED <<pc, call>>

\* ------------------------------------------------------------ registration

\* a ?? b ?? 0 over the optional fields of `data`.
TotalCreditsOf(data) ==
  IF "totalCredits" \in DOMAIN data THEN data.totalCredits ELSE 0

AvailableCreditsOf(data) ==
  IF "availableCredits" \in DOMAIN data THEN data.availableCredits
  ELSE IF "totalCredits" \in DOMAIN data THEN data.totalCredits
  ELSE 0

\* The id the database gives the next carbon_projects row.
UnusedIds == {i \in 1..Len(ProjectIdOrder) : ProjectIdOrder[i] \notin DOMAIN projects}

NextProjectId ==
  ProjectIdOrder[CHOOSE i \in UnusedIds : \A j \in UnusedIds : i <= j]

NewProjectRow(data) ==
  [developerId |-> data.developerId,
   vintage |-> data.vintage,
   totalCredits |-> TotalCreditsOf(data),
   availableCredits |-> AvailableCreditsOf(data),
   pricePerCredit |-> data.pricePerCredit,
   status |-> "pending",
   integrityScore |-> 0]

RegisterProject(data) ==
  /\ UnusedIds # {}
  /\ AtomicCall(ReturnedProject(NextProjectId))
  /\ projects' = (NextProjectId :> NewProjectRow(data)) @@ projects
  /\ UNCHANGED <<credits, ledger, holdings, alerts, now>>

\* prisma.carbonProject.update throws when no row has the id; approveProject
\* has no try/catch, so the call rejects.
ApproveProject(projectId) ==
  IF projectId \in DOMAIN projects
  THEN /\ AtomicCall(Returned("ok", ""))
       /\ projects' = [projects EXCEPT ![projectId].status = "active"]
       /\ UNCHANGED <<credits, ledger, holdings, alerts, now>>
  ELSE /\ AtomicCall(Returned("threw", ErrDatabase))
       /\ UNCHANGED <<projects, credits, ledger, holdings, alerts, now>>

AlertRow(type, entity, projectId, message, resolved) ==
  [id |-> Len(alerts) + 1, type |-> type, entity |-> entity, projectId |-> projectId,
   message |-> message, resolved |-> resolved]

\* The update and the alert insert run side by side (Promise.all); the alert
\* references the project (compliance_alerts_projectId_fkey), so both fail
\* when the project does not exist.
RejectProject(projectId, reason) ==
  IF projectId \in DOMAIN projects
  THEN /\ RoomInAlerts
       /\ AtomicCall(Returned("ok", ""))
       /\ projects' = [projects EXCEPT ![projectId].status = "rejected"]
       /\ alerts' = Append(alerts,
            AlertRow("warning", [kind |-> "Project", id |-> projectId], projectId,
                     [text |-> "Project rejected", quantity |-> 0,
                      projectId |-> "", reason |-> reason], FALSE))
       /\ UNCHANGED <<credits, ledger, holdings, now>>
  ELSE /\ AtomicCall(Returned("threw", ErrDatabase))
       /\ UNCHANGED <<projects, credits, ledger, holdings, alerts, now>>

\* ---------------------------------------------------------------- issuance

UpperChar(c) ==
  CASE c = "a" -> "A" [] c = "b" -> "B" [] c = "c" -> "C" [] c = "j" -> "J"
    [] c = "m" -> "M" [] c = "p" -> "P" [] c = "r" -> "R" [] OTHER -> c

\* projectId.toUpperCase().slice(0, 6)
SerialPrefix(projectId) ==
  LET chars == IdChars(projectId)
      n == Min(SerialPrefixLen, Len(chars))
  IN [i \in 1..n |-> UpperChar(chars[i])]

RECURSIVE Pow10(_)
Pow10(n) == IF n = 0 THEN 1 ELSE 10 * Pow10(n - 1)

\* String(n).slice(-4) for a millisecond clock (at least four digits long):
\* the last four decimal digits, most significant first.
SerialSuffix(n) ==
  [i \in 1..SerialSuffixLen |-> (n \div Pow10(SerialSuffixLen - i)) % 10]

\* `BCX-${prefix}-${vintage}-${suffix}`
SerialNumber(projectId, vintage, n) ==
  <<"BCX", SerialPrefix(projectId), vintage, SerialSuffix(n)>>

\* The table without its unique index: no insert is ever refused.
SerialNumberNeverTaken(rows, serial) == FALSE

\* carbon_credits_serialNumber_key: an insert of a serial that a row already
\* carries fails.
SerialNumberTaken(rows, serial) ==
  \E i \in 1..Len(rows) : rows[i].serialNumber = serial

\* The new batches put in front of the table, taking the place of the old.
InsertCreditsInFront(rows, new) == <<new \o rows, TRUE>>

\* The loop dropping a refused insert and carrying on.
RECURSIVE InsertCreditsSkipping(_, _)
InsertCreditsSkipping(rows, new) ==
  IF new = <<>> THEN <<rows, TRUE>>
  ELSE IF SerialNumberTaken(rows, new[1].serialNumber)
       THEN InsertCreditsSkipping(rows, Tail(new))
       ELSE InsertCreditsSkipping(Append(rows, new[1]), Tail(new))

\* The rows of the loop, inserted one by one inside the transaction; the
\* result is <<rows after the loop, whether every insert succeeded>>.
RECURSIVE InsertCredits(_, _)
InsertCredits(rows, new) ==
  IF new = <<>> THEN <<rows, TRUE>>
  ELSE IF SerialNumberTaken(rows, new[1].serialNumber) THEN <<rows, FALSE>>
  ELSE InsertCredits(Append(rows, new[1]), Tail(new))

\* One batch per credit, however many are asked for.
BatchSizeUncapped(quantity) == quantity

\* Math.min(quantity, 5)
BatchSize(quantity) == Min(quantity, BatchCap)

\* Math.floor(quantity / batchSize), evaluated only inside the loop
\* (batchSize >= 1 there).
BatchQuantity(quantity) == quantity \div BatchSize(quantity)

\* Clock readings of the loop: Date.now() is read anew in every iteration;
\* it never runs backwards, not within a call and not from one call to the
\* next.
RECURSIVE ReadingsFrom(_, _)
ReadingsFrom(n, lo) ==
  IF n = 0 THEN {<<>>}
  ELSE UNION {{<<v>> \o d : d \in ReadingsFrom(n - 1, v)} : v \in lo..(ClockStart + MaxTicks)}

LoopReadings(n) == ReadingsFrom(n, now)

NewCreditRows(projectId, project, quantity, d) ==
  [i \in 1..(IF BatchSize(quantity) > 0 THEN BatchSize(quantity) ELSE 0) |->
     [projectId |-> projectId,
      serialNumber |-> SerialNumber(projectId, project.vintage, d[i] + (i - 1)),
      vintage |-> project.vintage,
      quantity |-> BatchQuantity(quantity),
      status |-> "issued"]]

Serials(rows) == [i \in 1..Len(rows) |-> rows[i].serialNumber]

\* The issuance recorded as a transfer from the developer.
IssuanceRowFromDeveloper(projectId, project, quantity) ==
  [id |-> Len(ledger) + 1, type |-> "issuance", projectId |-> projectId,
   fromUserId |-> project.developerId,
   toUserId |-> project.developerId, quantity |-> quantity, status |-> "confirmed"]

IssuanceRow(projectId, project, quantity) ==
  [id |-> Len(ledger) + 1, type |-> "issuance", projectId |-> projectId,
   toUserId |-> project.developerId, quantity |-> quantity, status |-> "confirmed"]

\* The issuance also adding the issued quantity to the project's inventory.
IssueCreditsAddingSupply(projectId, quantity) ==
  IF projectId \notin DOMAIN projects
  THEN /\ AtomicCall(Returned("fail", ""))
       /\ UNCHANGED <<projects, credits, ledger, holdings, alerts, now>>
  ELSE \E d \in LoopReadings(IF BatchSize(quantity) > 0 THEN BatchSize(quantity) ELSE 0) :
       LET project == projects[projectId]
           new == NewCreditRows(projectId, project, quantity, d)
           ins == InsertCredits(credits, new)
       IN /\ now' = IF Len(new) > 0 THEN d[Len(new)] ELSE now
          /\ IF ins[2]
             THEN /\ RoomInLedger
                  /\ AtomicCall(ReturnedSerials(Serials(new)))
                  /\ credits' = ins[1]
                  /\ ledger' = InsertTransaction(ledger, IssuanceRow(projectId, project, quantity))
                  /\ projects' = [projects EXCEPT ![projectId].availableCredits = @ + quantity]
                  /\ UNCHANGED <<holdings, alerts>>
             ELSE /\ AtomicCall(Returned("threw", ErrDatabase))
                  /\ UNCHANGED <<projects, credits, ledger, holdings, alerts>>

\* The read of the project and the transaction are two awaits, but the
\* fields the transaction takes from the read (vintage, developerId) are
\* never written after registration and projects are never deleted, so the
\* call is one step.  A failed insert rolls the transaction back and the
\* call rejects (issueCredits has no try/catch).  An insert of a serial that
\* a concurrent, uncommitted transaction has inserted waits for it and fails
\* once it commits, so concurrent issuances end as if run one after another.
IssueCredits(projectId, quantity) ==
  IF projectId \notin DOMAIN projects
  THEN /\ AtomicCall(Returned("fail", ""))
       /\ UNCHANGED <<projects, credits, ledger, holdings, alerts, now>>
  ELSE \E d \in LoopReadings(IF BatchSize(quantity) > 0 THEN BatchSize(quantity) ELSE 0) :
       LET project == projects[projectId]
           new == NewCreditRows(projectId, project, quantity, d)
           ins == InsertCredits(credits, new)
       IN /\ now' = IF Len(new) > 0 THEN d[Len(new)] ELSE now
          /\ IF ins[2]
             THEN /\ RoomInLedger
                  /\ AtomicCall(ReturnedSerials(Serials(new)))
                  /\ credits' = ins[1]
                  /\ ledger' = InsertTransaction(ledger, IssuanceRow(projectId, project, quantity))
                  /\ UNCHANGED <<projects, holdings, alerts>>
             ELSE /\ AtomicCall(Returned("threw", ErrDatabase))
                  /\ UNCHANGED <<projects, credits, ledger, holdings, alerts>>

\* ---------------------------------------------------------------- purchase

\* The check off by one: a purchase of one credit more than is available
\* passes.
InsufficientSupplyOffByOne(project, quantity) == project.availableCredits + 1 < quantity

\* The check also refusing a project that has no integrity score yet.
InsufficientSupplyOrUnscored(project, quantity) ==
  project.availableCredits < quantity \/ project.integrityScore = 0

\* if (project.availableCredits < quantity) return "Not enough credits available."
InsufficientSupply(project, quantity) == project.availableCredits < quantity

PurchaseCall(projectId, quantity, buyerId, project) ==
  [projectId |-> projectId, quantity |-> quantity,
   buyerId |-> buyerId, seenAvailable |-> project.availableCredits,
   seenPrice |-> project.pricePerCredit, seenDeveloper |-> project.developerId]

\* First await of purchaseCredits: findUnique and the two early returns.  A
\* caller that passes both is left in flight, holding the row it read.
PurchaseCreditsRead(s, projectId, quantity, buyerId) ==
  /\ InFlight # Callers
  /\ s = NextCaller
  /\ UNCHANGED <<projects, credits, ledger, holdings, alerts, now>>
  /\ IF projectId \notin DOMAIN projects
     THEN AtomicCall(Returned("fail", ErrNotFound))
     ELSE IF InsufficientSupply(projects[projectId], quantity)
     THEN AtomicCall(Returned("fail", ErrNotEnough))
     ELSE /\ RoomInLedger
          /\ call' = [call EXCEPT ![s] =
                        PurchaseCall(projectId, quantity, buyerId, projects[projectId])]
          /\ pc' = [pc EXCEPT ![s] = "commit"]
          /\ UNCHANGED ret

\* The purchase row valued at the price of one credit.
PurchaseRowAtUnitPrice(c) ==
  [id |-> Len(ledger) + 1, type |-> "purchase", projectId |-> c.projectId,
   fromUserId |-> c.seenDeveloper, toUserId |-> c.buyerId, quantity |-> c.quantity,
   pricePerCredit |-> c.seenPrice, totalValue |-> c.seenPrice,
   status |-> "confirmed"]

\* prisma.transaction.create of the purchase: price and developer come from
\* the row read before the transaction.
PurchaseRow(c) ==
  [id |-> Len(ledger) + 1, type |-> "purchase", projectId |-> c.projectId,
   fromUserId |-> c.seenDeveloper, toUserId |-> c.buyerId, quantity |-> c.quantity,
   pricePerCredit |-> c.seenPrice, totalValue |-> c.quantity * c.seenPrice,
   status |-> "confirmed"]

\* The purchase leaving the inventory as it was.
AvailableUntouched(rows, projectId, quantity) == rows

\* data: { availableCredits: { decrement: quantity } }: applied by the
\* database to the row's current value.
DecrementAvailable(rows, projectId, quantity) ==
  [rows EXCEPT ![projectId].availableCredits = @ - quantity]

\* The upsert storing the purchased quantity in place of adding it.
UpsertHoldingOverwrite(rows, buyerId, projectId, quantity, price) ==
  (<<buyerId, projectId>> :> [quantity |-> quantity, avgPrice |-> price]) @@ rows

\* prisma.buyerHolding.upsert: create with the purchase price, or increment
\* the quantity of the row that exists.
UpsertHolding(rows, buyerId, projectId, quantity, price) ==
  IF <<buyerId, projectId>> \in DOMAIN rows
  THEN [rows EXCEPT ![<<buyerId, projectId>>].quantity = @ + quantity]
  ELSE (<<buyerId, projectId>> :> [quantity |-> quantity, avgPrice |-> price]) @@ rows

\* Whether every write of the purchase transaction succeeds: the ledger row
\* and the holding reference the buyer (transactions_toUserId_fkey,
\* buyer_holdings_buyerId_fkey).  The project exists (it was read, and
\* projects are never deleted).
PurchaseWritesSucceed(c) == c.buyerId \in Users

\* The transaction waiting until no other purchase is in flight.
PurchaseCreditsCommitWaiting(s) ==
  /\ pc[s] = "commit"
  /\ InFlight = {s}
  /\ LET c == call[s]
     IN IF PurchaseWritesSucceed(c)
        THEN /\ ledger' = InsertTransaction(ledger, PurchaseRow(c))
             /\ projects' = DecrementAvailable(projects, c.projectId, c.quantity)
             /\ holdings' = UpsertHolding(holdings, c.buyerId, c.projectId, c.quantity,
                                          c.seenPrice)
             /\ ret' = ReturnedTransaction(Len(ledger) + 1)
        ELSE /\ ret' = Returned("fail", ErrDatabase)
             /\ UNCHANGED <<ledger, projects, holdings>>
  /\ pc' = [pc EXCEPT ![s] = "idle"]
  /\ call' = [call EXCEPT ![s] = NoCall]
  /\ UNCHANGED <<credits, alerts, now>>

\* Second await of purchaseCredits: the $transaction of three writes.  Any
\* failure rolls all of them back and the catch returns
\* { success: false, error: err.message }.
PurchaseCreditsCommit(s) ==
  /\ pc[s] = "commit"
  /\ LET c == call[s]
     IN IF PurchaseWritesSucceed(c)
        THEN /\ ledger' = InsertTransaction(ledger, PurchaseRow(c))
             /\ projects' = DecrementAvailable(projects, c.projectId, c.quantity)
             /\ holdings' = UpsertHolding(holdings, c.buyerId, c.projectId, c.quantity,
                                          c.seenPrice)
             /\ ret' = ReturnedTransaction(Len(ledger) + 1)
        ELSE /\ ret' = Returned("fail", ErrDatabase)
             /\ UNCHANGED <<ledger, projects, holdings>>
  /\ pc' = [pc EXCEPT ![s] = "idle"]
  /\ call' = [call EXCEPT ![s] = NoCall]
  /\ UNCHANGED <<credits, alerts, now>>

\* -------------------------------------------------------------- retirement

RetirementRow(projectId, quantity, buyerId) ==
  [id |-> Len(ledger) + 1, type |-> "retirement", projectId |-> projectId,
   toUserId |-> buyerId, quantity |-> quantity, status |-> "confirmed"]

\* An update that never misses its row.
HoldingAlwaysExists(rows, buyerId, projectId) == TRUE

\* prisma.buyerHolding.update: throws when the (buyer, project) row is absent.
HoldingExists(rows, buyerId, projectId) == <<buyerId, projectId>> \in DOMAIN rows

\* The retirement leaving the holding as it was.
HoldingUntouched(rows, buyerId, projectId, quantity) == rows

\* The retirement deleting a holding that it empties.
DecrementHoldingDroppingEmpty(rows, buyerId, projectId, quantity) ==
  IF rows[<<buyerId, projectId>>].quantity = quantity
  THEN [k \in DOMAIN rows \ {<<buyerId, projectId>>} |-> rows[k]]
  ELSE [rows EXCEPT ![<<buyerId, projectId>>].quantity = @ - quantity]

\* data: { quantity: { decrement: quantity } }
DecrementHolding(rows, buyerId, projectId, quantity) ==
  [rows EXCEPT ![<<buyerId, projectId>>].quantity = @ - quantity]

\* Whether every write of the retirement transaction succeeds: the ledger
\* row and the alert reference the project (foreign keys), the update needs
\* the holding row.
RetireWritesSucceed(projectId, buyerId) ==
  /\ projectId \in DOMAIN projects
  /\ HoldingExists(holdings, buyerId, projectId)

\* retireCredits: one $transaction of three writes; any failure rolls all of
\* them back and the catch returns { success: false }.
RetireCredits(projectId, quantity, buyerId, reason) ==
  IF RetireWritesSucceed(projectId, buyerId)
  THEN /\ RoomInLedger
       /\ RoomInAlerts
       /\ AtomicCall(ReturnedTransaction(Len(ledger) + 1))
       /\ ledger' = InsertTransaction(ledger, RetirementRow(projectId, quantity, buyerId))
       /\ holdings' = DecrementHolding(holdings, buyerId, projectId, quantity)
       /\ alerts' = Append(alerts,
            AlertRow("info", [kind |-> "", id |-> buyerId], projectId,
                     [text |-> "credits retired from project", quantity |-> quantity,
                      projectId |-> projectId, reason |-> reason], TRUE))
       /\ UNCHANGED <<projects, credits, now>>
  ELSE /\ AtomicCall(Returned("fail", ""))
       /\ UNCHANGED <<projects, credits, ledger, holdings, alerts, now>>

\* ------------------------------------------------------------------ reports

\* getAdminStats().totalCreditsRetired: carbonCredit.aggregate over the
\* batches of status "retired", `?? 0` when there is none.
AdminTotalCreditsRetired ==
  SumQuantity(SelectSeq(credits, LAMBDA c : c.status = "retired"))

\* getBuyerPortfolio(buyerId).totalCreditsRetired: the same sum over the
\* batches issued to the buyer (issuedToId is null, an absent key, for the
\* batches issueCredits creates).
PortfolioCreditsRetired(buyerId) ==
  SumQuantity(SelectSeq(credits, LAMBDA c : /\ "issuedToId" \in DOMAIN c
                                            /\ c.issuedToId = buyerId
                                            /\ c.status = "retired"))

\* ------------------------------------------------------------- ledger view

\* The rows without the i-th.
Without(rows, i) == SubSeq(rows, 1, i - 1) \o SubSeq(rows, i + 1, Len(rows))

\* orderBy: { timestamp: "desc" }: the rows by falling timestamp.  The query
\* names no second key, so rows of equal timestamp come in any order: the
\* result is the set of the orders the database may return.
RECURSIVE OrderByTimestampDesc(_)
OrderByTimestampDesc(rows) ==
  IF rows = <<>> THEN {<<>>}
  ELSE UNION {{<<rows[i]>> \o rest : rest \in OrderByTimestampDesc(Without(rows, i))} :
                i \in {j \in 1..Len(rows) :
                         \A k \in 1..Len(rows) : rows[j].timestamp >= rows[k].timestamp}}

\* The first page taken as page zero.
SkipOfOneBased(page, pageSize) == page * pageSize

\* skip: (page - 1) * pageSize
SkipOf(page, pageSize) == (page - 1) * pageSize

\* findMany({ skip }): the rows after the first n.
RECURSIVE Skip(_, _)
Skip(rows, n) ==
  IF n <= 0 \/ rows = <<>> THEN rows ELSE Skip(Tail(rows), n - 1)

\* findMany({ take }): the first n rows.
RECURSIVE Take(_, _)
Take(rows, n) ==
  IF n <= 0 \/ rows = <<>> THEN <<>> ELSE <<Head(rows)>> \o Take(Tail(rows), n - 1)

\* raw.map((t) => ({ ... })): the view of one row; a row without fromUser is
\* shown as coming from the registry.
LedgerEntry(t) ==
  [id |-> t.id, type |-> t.type, projectId |-> t.projectId,
   from |-> IF "fromUserId" \in DOMAIN t THEN t.fromUserId ELSE "BCX Registry",
   to |-> t.toUserId, quantity |-> t.quantity, timestamp |-> t.timestamp,
   status |-> t.status]

\* getLedgerTransactions(page, pageSize): findMany and count, on a ledger
\* that no call is writing to.
GetLedgerTransactions(page, pageSize) ==
  /\ \E rows \in OrderByTimestampDesc(ledger) :
       LET raw == Take(Skip(rows, SkipOf(page, pageSize)), pageSize)
       IN AtomicCall(ReturnedPage([i \in 1..Len(raw) |-> LedgerEntry(raw[i])],
                                  Len(ledger)))
  /\ UNCHANGED <<projects, credits, ledger, holdings, alerts, now>>

\* ---------------------------------------------------------- integrity score

Max(a, b) == IF a > b THEN a ELSE b

\* The keyword rule sets: for each rule the number of its patterns and the
\* points one matched pattern adds.
ADDITIONALITY_RULES ==
  <<[patterns |-> 3, weight |-> 8], [patterns |-> 3, weight |-> 10],
    [patterns |-> 3, weight |-> 7], [patterns |-> 2, weight |-> 5]>>

PERMANENCE_RULES ==
  <<[patterns |-> 4, weight |-> 9], [patterns |-> 2, weight |-> 10],
    [patterns |-> 3, weight |-> 6], [patterns |-> 2, weight |-> 5]>>

MRV_RULES ==
  <<[patterns |-> 5, weight |-> 8], [patterns |-> 2, weight |-> 7],
    [patterns |-> 3, weight |-> 6], [patterns |-> 3, weight |-> 5]>>

LEAKAGE_RULES ==
  <<[patterns |-> 3, weight |-> 9], [patterns |-> 2, weight |-> 8],
    [patterns |-> 3, weight |-> 6], [patterns |-> 2, weight |-> 4]>>

REGISTRY_QUALITY_RULES ==
  <<[patterns |-> 4, weight |-> 9], [patterns |-> 3, weight |-> 8],
    [patterns |-> 3, weight |-> 5], [patterns |-> 2, weight |-> 6]>>

CORRESPONDING_ADJUSTMENT_RULES ==
  <<[patterns |-> 3, weight |-> 10], [patterns |-> 3, weight |-> 9],
    [patterns |-> 2, weight |-> 7], [patterns |-> 2, weight |-> 4]>>

\* The rule sets in the order of the parameters: additionality, permanence,
\* mrv, leakage, registryQuality, correspondingAdjustment.
RuleSets ==
  <<ADDITIONALITY_RULES, PERMANENCE_RULES, MRV_RULES, LEAKAGE_RULES,
    REGISTRY_QUALITY_RULES, CORRESPONDING_ADJUSTMENT_RULES>>

\* In hundredths: 0.25, 0.20, 0.20, 0.15, 0.10, 0.10.
PARAMETER_WEIGHTS == <<25, 20, 20, 15, 10, 10>>

\* A description is what the rules see of it: for every rule of every rule
\* set, how many of the rule's patterns the text matches.
MatchLevels == {"none", "some", "all"}

MatchesAt(level, rules) ==
  [i \in 1..Len(rules) |->
     CASE level = "none" -> 0
       [] level = "some" -> Min(MaxMatched, rules[i].patterns)
       [] level = "all" -> rules[i].patterns]

Descriptions ==
  {[k \in 1..Len(RuleSets) |-> MatchesAt(levels[k], RuleSets[k])] :
     levels \in [1..Len(RuleSets) -> MatchLevels]}

\* Math.random() * range - half, in tenths: from -half up to just below
\* +half.
JitterSamples ==
  {(k * (JITTER_RANGE * Tenths - 1)) \div JitterSteps - (JITTER_RANGE * Tenths) \div 2 :
     k \in 0..JitterSteps}

Jitters == [1..Len(RuleSets) -> JitterSamples]

RECURSIVE KeywordPoints(_, _)
KeywordPoints(matches, rules) ==
  IF rules = <<>> THEN 0
  ELSE Head(matches) * Head(rules).weight + KeywordPoints(Tail(matches), Tail(rules))

\* evaluateRules: BASE_SCORE + keywordPoints * KEYWORD_SCALING, in tenths.
EvaluateRules(matches, rules) ==
  BASE_SCORE * Tenths + KeywordPoints(matches, rules) * KEYWORD_SCALING

\* applyJitter, in tenths.
ApplyJitter(value, jitter) == value + jitter

\* Rounding with no clamp before it.
RoundOnly(value, scale) == (value + scale \div 2) \div scale

\* clampAndRound: Math.round(Math.min(max, Math.max(min, value))) of a value
\* given in 1/scale; Math.round takes a half upwards.
ClampAndRound(value, scale) ==
  (Min(MAX_SCORE * scale, Max(MIN_SCORE * scale, value)) + scale \div 2) \div scale

RECURSIVE WeightedSum(_, _)
WeightedSum(parameters, weights) ==
  IF parameters = <<>> THEN 0
  ELSE Head(parameters) * Head(weights) + WeightedSum(Tail(parameters), Tail(weights))

\* Math.pow(weightedSum, 0.9), both in hundredths.  The power is not
\* computed: for 1 <= x <= 1024 it lies between x / 2 and x, and the score
\* does not fall when it grows, so the two ends and the middle of that range
\* stand for every value it can take.
PowNineTenths(x) == {x \div 2, (3 * x) \div 4, x}

\* BASE_SCORE + pow * 0.6, in thousandths, then clamped and rounded.
ScoresOf(parameters) ==
  {(Min(MAX_SCORE * Thousandths,
        Max(MIN_SCORE * Thousandths, BASE_SCORE * Thousandths + 6 * pow))
      + Thousandths \div 2) \div Thousandths :
     pow \in PowNineTenths(WeightedSum(parameters, PARAMETER_WEIGHTS))}

ParametersOf(description, jitter) ==
  [k \in 1..Len(RuleSets) |->
     ClampAndRound(ApplyJitter(EvaluateRules(description[k], RuleSets[k]), jitter[k]),
                   Tenths)]

\* calculateIntegrityScoreFromDescription(description), with the six values
\* that Math.random() gives it.
CalculateIntegrityScoreFromDescription(description, jitter) ==
  /\ \E score \in ScoresOf(ParametersOf(description, jitter)) :
       AtomicCall(ReturnedScore(score, ParametersOf(description, jitter)))
  /\ UNCHANGED <<projects, credits, ledger, holdings, alerts, now>>

\* ------------------------------------------------------------ specification

\* The database after the schema is created: no project, credit, ledger,
\* holding or alert row; the users exist.
Init ==
  /\ projects = [p \in {} |-> 0]
  /\ credits = <<>>
  /\ ledger = <<>>
  /\ holdings = [k \in {} |-> 0]
  /\ alerts = <<>>
  /\ now = ClockStart
  /\ pc = [s \in Callers |-> "idle"]
  /\ call = [s \in Callers |-> NoCall]
  /\ ret = NoResult

\* The ledger operations.  approveProject and rejectProject write only a
\* project's status and an alert, which none of these operations reads, so
\* they are left out of Next.
Next ==
  \/ \E data \in RegisterInputs : RegisterProject(data)
  \/ \E p \in ProjectIds, q \in IssueQuantities : IssueCredits(p, q)
  \/ \E s \in Callers, p \in ProjectIds, q \in Quantities, b \in Buyers :
       PurchaseCreditsRead(s, p, q, b)
  \/ \E s \in Callers : PurchaseCreditsCommit(s)
  \/ \E p \in ProjectIds, q \in Quantities, b \in Buyers, r \in Reasons :
       RetireCredits(p, q, b, r)

Spec == Init /\ [][Next]_vars

\* The life of a project and the purchases made of it: registration, the
\* admin's approval and rejection, and purchaseCredits, from the empty
\* database.
LifecycleNext ==
  \/ \E data \in RegisterInputs : RegisterProject(data)
  \/ \E p \in ProjectIds : ApproveProject(p)
  \/ \E p \in ProjectIds, r \in Reasons : RejectProject(p, r)
  \/ \E s \in Callers, p \in ProjectIds, q \in Quantities, b \in Buyers :
       PurchaseCreditsRead(s, p, q, b)
  \/ \E s \in Callers : PurchaseCreditsCommit(s)

LifecycleSpec == Init /\ [][LifecycleNext]_vars

\* The database after `npx prisma db seed`.
SeedInit ==
  /\ projects = SeedProjects
  /\ credits = SeedCredits
  /\ ledger = SeedLedger
  /\ holdings = SeedHoldings
  /\ alerts = <<>>
  /\ now = ClockStart
  /\ pc = [s \in Callers |-> "idle"]
  /\ call = [s \in Callers |-> NoCall]
  /\ ret = NoResult

\* The ledger operations on the seeded project, called with the id of a
\* buyer or with an id that no user has.
SeedNext ==
  \/ \E p \in SeedProjectIds, q \in IssueQuantities : IssueCredits(p, q)
  \/ \E s \in Callers, p \in SeedProjectIds, q \in Quantities, b \in BuyerIds :
       PurchaseCreditsRead(s, p, q, b)
  \/ \E s \in Callers : PurchaseCreditsCommit(s)
  \/ \E p \in SeedProjectIds, q \in Quantities, b \in BuyerIds, r \in Reasons :
       RetireCredits(p, q, b, r)

SeedSpec == SeedInit /\ [][SeedNext]_vars

\* The seeded database with the scheduling the runtime gives: a call that
\* has passed its first await is resumed once the query it awaits is
\* answered, and the transaction it then sends is a batch of three writes
\* that takes its row locks in one order (project, then holding) and holds
\* them only until it commits, so it is never kept waiting for ever.
\* issueCredits and retireCredits are one step each and need no fairness.
FairSeedSpec == SeedSpec /\ \A s \in Callers : WF_vars(PurchaseCreditsCommit(s))

\* Ledgers to page through: up to MaxEntries rows, each with one of the
\* timestamps, in any order of insertion (the seed writes its own
\* timestamps); every second row is a purchase, the others are issuances.
StampedRow(i, stamp) ==
  IF i % 2 = 0
  THEN [id |-> i, type |-> "purchase", projectId |-> "prj001", fromUserId |-> "dev",
        toUserId |-> "b1", quantity |-> i, timestamp |-> stamp, status |-> "confirmed"]
  ELSE [id |-> i, type |-> "issuance", projectId |-> "prj001",
        toUserId |-> "dev", quantity |-> i, timestamp |-> stamp, status |-> "confirmed"]

StampedLedgers ==
  UNION {{[i \in 1..n |-> StampedRow(i, stamps[i])] : stamps \in [1..n -> Timestamps]} :
           n \in 0..MaxEntries}

LedgerInit ==
  /\ projects = SeedProjects
  /\ credits = SeedCredits
  /\ ledger \in StampedLedgers
  /\ holdings = SeedHoldings
  /\ alerts = <<>>
  /\ now = ClockStart
  /\ pc = [s \in Callers |-> "idle"]
  /\ call = [s \in Callers |-> NoCall]
  /\ ret = NoResult

LedgerNext == \E page \in Pages, pageSize \in PageSizes : GetLedgerTransactions(page, pageSize)

LedgerSpec == LedgerInit /\ [][LedgerNext]_vars

\* One request to the integrity-score route: the score is computed from the
\* description and returned; the database is not written to.
ScoreInit == SeedInit

ScoreNext ==
  /\ ret = NoResult
  /\ \E description \in Descriptions, jitter \in Jitters :
       CalculateIntegrityScoreFromDescription(description, jitter)

ScoreSpec == ScoreInit /\ [][ScoreNext]_vars

\* ------------------------------------------------------------------ claims

Retired(projectId) == SumQuantity(SelectRows(ledger, "retirement", projectId))

Held(projectId) == SumHoldings(HoldingsOf(projectId), holdings)

WithinBounds(project) ==
  0 <= project.availableCredits /\ project.availableCredits <= project.totalCredits

\* C1: every project keeps 0 <= availableCredits <= totalCredits.  Stated
\* for the step the claim singles out: a purchase of a positive quantity
\* that commits on a project within these bounds leaves it within them,
\* whatever other callers did between its read and its commit.
C1_AvailableStaysWithinBounds ==
  [][\A s \in Callers :
       (/\ PurchaseCreditsCommit(s)
        /\ call[s].quantity > 0
        /\ WithinBounds(projects[call[s].projectId]))
       => WithinBounds(projects'[call[s].projectId])]_vars

\* The purchase rows at the end of the ledger that are for this project and
\* this quantity: how many there are.
RECURSIVE TrailingPurchases(_, _, _)
TrailingPurchases(rows, projectId, quantity) ==
  IF rows = <<>> THEN 0
  ELSE LET last == rows[Len(rows)]
       IN IF last.type = "purchase" /\ last.projectId = projectId
             /\ last.quantity = quantity
          THEN 1 + TrailingPurchases(SubSeq(rows, 1, Len(rows) - 1), projectId, quantity)
          ELSE 0

\* Caller s is the last of NumCallers concurrent purchases of the same
\* quantity Q of one project to commit: it read availableCredits = K, and
\* since then the other NumCallers - 1 purchases of Q have committed and
\* nothing else has touched the inventory.
LastOfConcurrentPurchases(s) ==
  LET c == call[s]
      m == NumCallers - 1
  IN /\ InFlight = {s}
     /\ c.quantity > 0
     /\ c.seenAvailable >= 0
     /\ NumCallers * c.quantity > c.seenAvailable
     /\ TrailingPurchases(ledger, c.projectId, c.quantity) >= m
     /\ projects[c.projectId].availableCredits = c.seenAvailable - m * c.quantity

\* C2: of N concurrent purchases of Q credits of a project with K available,
\* Q > K/N, exactly K \div Q succeed and the others fail with the
\* insufficient-supply error.
C2_ConcurrentPurchasesSucceedFloorKOverQ ==
  [][\A s \in Callers :
       (PurchaseCreditsCommit(s) /\ LastOfConcurrentPurchases(s))
       => /\ (NumCallers - 1) + (IF ret'.status = "ok" THEN 1 ELSE 0)
               = call[s].seenAvailable \div call[s].quantity
          /\ ret'.status = "ok" \/ ret' = Returned("fail", ErrNotEnough)]_vars

\* C3: for every project, totalCredits = availableCredits + the quantity
\* held by all buyers + the quantity retired (the retirement rows of the
\* ledger), after every committed operation.
C3_CreditsBalance ==
  \A p \in DOMAIN projects :
    projects[p].totalCredits = projects[p].availableCredits + Held(p) + Retired(p)

HoldingsNonNegative(rows) == \A k \in DOMAIN rows : rows[k].quantity >= 0

\* C4: no holding ever has a negative quantity.  Stated for the step the
\* claim singles out: a retirement of a positive quantity never takes a
\* holding below zero.
C4_HoldingsStayNonNegative ==
  [][\A p \in ProjectIds, q \in Quantities, b \in Buyers, r \in Reasons :
       (RetireCredits(p, q, b, r) /\ q > 0 /\ HoldingsNonNegative(holdings))
       => HoldingsNonNegative(holdings')]_vars

\* C5: a retirement of more than the buyer holds fails and changes neither
\* the holding, nor the ledger, nor the inventory.
C5_RetireMoreThanHeldFails ==
  [][\A p \in ProjectIds, q \in Quantities, b \in Buyers, r \in Reasons :
       (/\ RetireCredits(p, q, b, r)
        /\ HoldingExists(holdings, b, p)
        /\ q > 0
        /\ holdings[<<b, p>>].quantity >= 0
        /\ q > holdings[<<b, p>>].quantity)
       => /\ ret'.status = "fail"
          /\ UNCHANGED <<holdings, ledger, projects>>]_vars

\* C6: a purchase of more than the project's availableCredits returns the
\* insufficient-supply error at once and changes no table.
C6_PurchaseMoreThanAvailableFails ==
  [][\A s \in Callers, p \in ProjectIds, q \in Quantities, b \in Buyers :
       (/\ p \in DOMAIN projects
        /\ q > projects[p].availableCredits
        /\ PurchaseCreditsRead(s, p, q, b))
       => /\ ret' = Returned("fail", ErrNotEnough)
          /\ pc' = pc
          /\ UNCHANGED <<projects, holdings, ledger, credits, alerts>>]_vars

\* A purchase has been refused for lack of supply.
C6_Witness == ret = Returned("fail", ErrNotEnough)

\* The rows a step appended to a table.
Appended(before, after) == SubSeq(after, Len(before) + 1, Len(after))

\* C7: the batches of one successful issuance of q > 0 credits sum to q.
C7_BatchesSumToRequested ==
  [][\A p \in ProjectIds, q \in IssueQuantities :
       (IssueCredits(p, q) /\ q > 0 /\ ret'.status = "ok")
       => SumQuantity(Appended(credits, credits')) = q]_vars

\* C8: no two rows of carbon_credits carry the same serial number (rows are
\* never deleted, so a serial is never reused either).
C8_SerialNumbersUnique ==
  \A i \in 1..Len(credits) : \A j \in 1..Len(credits) :
    i # j => credits[i].serialNumber # credits[j].serialNumber

\* An issuance has been refused by the unique index while batches exist.
C8_Witness == ret.status = "threw" /\ Len(credits) > 0

\* C9: issueCredits fails, writing no batch and no ledger row, when the
\* project does not exist and when the quantity is not positive.
C9_IssueRejectsBadRequests ==
  [][\A p \in ProjectIds, q \in IssueQuantities :
       (IssueCredits(p, q) /\ (p \notin DOMAIN projects \/ q <= 0))
       => /\ ret'.status = "fail"
          /\ UNCHANGED <<credits, ledger>>]_vars

\* C10: purchaseCredits and retireCredits with a quantity <= 0 return a
\* failure and change neither the inventory, nor a holding, nor the ledger.
C10_NonPositiveQuantityRejected ==
  [][/\ \A s \in Callers :
          (PurchaseCreditsCommit(s) /\ call[s].quantity <= 0)
          => /\ ret'.status = "fail"
             /\ UNCHANGED <<projects, holdings, ledger>>
     /\ \A p \in ProjectIds, q \in Quantities, b \in Buyers, r \in Reasons :
          (RetireCredits(p, q, b, r) /\ q <= 0)
          => /\ ret'.status = "fail"
             /\ UNCHANGED <<projects, holdings, ledger>>]_vars

Purchased(projectId) == SumQuantity(SelectRows(ledger, "purchase", projectId))

\* C12: the quantities of a project's purchase entries never sum to more
\* than its totalCredits.  Stated for the projects whose supply at
\* registration (what is available now plus what was purchased since) was
\* within their totalCredits.
C12_PurchasesWithinTotal ==
  \A p \in DOMAIN projects :
    projects[p].availableCredits + Purchased(p) <= projects[p].totalCredits
    => Purchased(p) <= projects[p].totalCredits

\* C13: a purchase of qty > 0 at the posted price that finds a holding
\* (oldQty, oldAvg) leaves avgPrice = (oldQty*oldAvg + qty*price) /
\* (oldQty + qty), stated without the division; a first purchase leaves
\* avgPrice = price.
C13_AvgPriceIsVolumeWeighted ==
  [][\A s \in Callers :
       (PurchaseCreditsCommit(s) /\ ret'.status = "ok" /\ call[s].quantity > 0)
       => LET c == call[s]
              k == <<c.buyerId, c.projectId>>
              price == projects[c.projectId].pricePerCredit
          IN IF k \in DOMAIN holdings
             THEN holdings'[k].avgPrice * (holdings[k].quantity + c.quantity)
                    = holdings[k].quantity * holdings[k].avgPrice + c.quantity * price
             ELSE holdings'[k].avgPrice = price]_vars

\* The writes of one issueCredits(p, q): a batch per loop iteration and the
\* ledger row.
IssueWritesApplied(q) ==
  /\ Len(credits') = Len(credits) + (IF BatchSize(q) > 0 THEN BatchSize(q) ELSE 0)
  /\ Len(ledger') = Len(ledger) + 1

\* The writes of the purchase in flight at caller s.
PurchaseWritesApplied(s) ==
  LET c == call[s]
      k == <<c.buyerId, c.projectId>>
  IN /\ Len(ledger') = Len(ledger) + 1
     /\ projects'[c.projectId].availableCredits
          = projects[c.projectId].availableCredits - c.quantity
     /\ k \in DOMAIN holdings'
     /\ holdings'[k].quantity
          = (IF k \in DOMAIN holdings THEN holdings[k].quantity ELSE 0) + c.quantity

\* The writes of one retireCredits(p, q, b, r).
RetireWritesApplied(p, q, b) ==
  /\ Len(ledger') = Len(ledger) + 1
  /\ Len(alerts') = Len(alerts) + 1
  /\ <<b, p>> \in DOMAIN holdings
  /\ holdings'[<<b, p>>].quantity = holdings[<<b, p>>].quantity - q

NoWriteVisible == UNCHANGED <<projects, credits, ledger, holdings, alerts>>

\* C14: issueCredits, purchaseCredits and retireCredits are all-or-nothing:
\* a call that reports success has applied every one of its writes, and a
\* call that does not report success has left no write behind.
C14_CallsAreAllOrNothing ==
  [][/\ \A p \in SeedProjectIds, q \in IssueQuantities :
          IssueCredits(p, q)
          => IF ret'.status = "ok" THEN IssueWritesApplied(q) ELSE NoWriteVisible
     /\ \A s \in Callers :
          PurchaseCreditsCommit(s)
          => IF ret'.status = "ok" THEN PurchaseWritesApplied(s) ELSE NoWriteVisible
     /\ \A p \in SeedProjectIds, q \in Quantities, b \in BuyerIds, r \in Reasons :
          RetireCredits(p, q, b, r)
          => IF ret'.status = "ok" THEN RetireWritesApplied(p, q, b)
             ELSE NoWriteVisible]_vars

\* A purchase whose transaction failed has returned its error.
C14_Witness == ret = Returned("fail", ErrDatabase)

\* The quantity the buyer has retired, over all projects.
RetiredBy(buyerId) ==
  SumQuantity(SelectSeq(ledger, LAMBDA e : e.type = "retirement" /\ e.toUserId = buyerId))

\* C15: retirement is irreversible: no retireCredits call lowers the retired
\* quantity of the project or of the buyer, and none raises availableCredits
\* or a holding.
C15_RetirementIsIrreversible ==
  [][\A p \in ProjectIds, q \in Quantities, b \in Buyers, r \in Reasons :
       RetireCredits(p, q, b, r)
       => /\ Retired(p)' >= Retired(p)
          /\ RetiredBy(b)' >= RetiredBy(b)
          /\ \A x \in DOMAIN projects :
               projects'[x].availableCredits <= projects[x].availableCredits
          /\ \A k \in DOMAIN holdings : holdings'[k].quantity <= holdings[k].quantity]_vars

\* C16: a successful retireCredits(p, q, b, r) lowers b's holding of p by
\* exactly q, leaves every project's availableCredits as it was, and appends
\* one ledger entry: a retirement to b of quantity q with no fromUserId,
\* whose id the call returns.
C16_RetireEffects ==
  [][\A p \in SeedProjectIds, q \in Quantities, b \in BuyerIds, r \in Reasons :
       (RetireCredits(p, q, b, r) /\ ret'.status = "ok")
       => /\ holdings'[<<b, p>>].quantity = holdings[<<b, p>>].quantity - q
          /\ projects' = projects
          /\ Len(ledger') = Len(ledger) + 1
          /\ SubSeq(ledger', 1, Len(ledger)) = ledger
          /\ LET e == ledger'[Len(ledger')]
             IN /\ e.type = "retirement"
                /\ e.projectId = p
                /\ e.toUserId = b
                /\ "fromUserId" \notin DOMAIN e
                /\ e.quantity = q
                /\ ret'.transactionId = e.id]_vars

\* A retirement of a positive quantity has been written and has returned.
C16_Witness ==
  /\ Len(ledger) > Len(SeedLedger)
  /\ ledger[Len(ledger)].type = "retirement"
  /\ ledger[Len(ledger)].quantity > 0
  /\ ret = ReturnedTransaction(Len(ledger))

\* C17: retireCredits for a (buyer, project) pair without a holding row
\* fails and writes nothing: no ledger entry, no holding, no alert.
C17_RetireWithoutHoldingFails ==
  [][\A p \in ProjectIds \cup SeedProjectIds, q \in Quantities, b \in BuyerIds,
        r \in Reasons :
       (<<b, p>> \notin DOMAIN holdings /\ RetireCredits(p, q, b, r))
       => /\ ret'.status = "fail"
          /\ UNCHANGED <<ledger, holdings, alerts, projects>>]_vars

\* A retirement has failed (on the seeded database no other call returns a
\* failure without a message).
C17_Witness == Seeded /\ ret = Returned("fail", "")

\* C18: purchaseCredits for a project id that does not exist fails with the
\* not-found error and writes no ledger entry and no holding.
C18_PurchaseOfMissingProjectFails ==
  [][\A s \in Callers, p \in ProjectIds, q \in Quantities, b \in BuyerIds :
       (p \notin DOMAIN projects /\ PurchaseCreditsRead(s, p, q, b))
       => /\ ret'.status = "fail"
          /\ ret'.error = "Project not found."
          /\ pc' = pc
          /\ UNCHANGED <<ledger, holdings, projects>>]_vars

\* A purchase has been refused because its project does not exist.
C18_Witness == ret.status = "fail" /\ ret.error = "Project not found."

\* The quantity of all the batches of a project.
Issued(projectId) == SumQuantity(SelectSeq(credits, LAMBDA c : c.projectId = projectId))

\* C19: the batches of a project never sum to more than its totalCredits.
C19_IssuedWithinTotal ==
  \A p \in DOMAIN projects : Issued(p) <= projects[p].totalCredits

\* C20: the ledger is append-only: every step leaves the entries it found
\* in place and unchanged.
C20_LedgerAppendOnly ==
  [][/\ Len(ledger') >= Len(ledger)
     /\ SubSeq(ledger', 1, Len(ledger)) = ledger]_vars

\* The ledger has grown twice.
C20_Witness == Len(ledger) = MaxRows /\ ledger[1].id = 1 /\ ledger[2].id = 2

\* The ledger entries of one type that name the buyer and the project.
EntriesOf(type, buyerId, projectId) ==
  SelectSeq(ledger, LAMBDA e : e.type = type /\ e.toUserId = buyerId
                                /\ e.projectId = projectId)

\* What the ledger says the buyer holds of the project.
HeldPerLedger(buyerId, projectId) ==
  SumQuantity(EntriesOf("purchase", buyerId, projectId))
    - SumQuantity(EntriesOf("retirement", buyerId, projectId))

HeldOrZero(buyerId, projectId) ==
  IF <<buyerId, projectId>> \in DOMAIN holdings
  THEN holdings[<<buyerId, projectId>>].quantity
  ELSE 0

\* C21: the aggregates are derivable from the ledger: after every step each
\* holding equals the buyer's purchases of the project minus the buyer's
\* retirements of it, and availableCredits plus the project's purchases
\* stays what it was (the supply the project started with).
C21_AggregatesDerivableFromLedger ==
  [][/\ \A b \in BuyerIds, p \in SeedProjectIds :
          HeldOrZero(b, p)' = HeldPerLedger(b, p)'
     /\ \A p \in DOMAIN projects :
          projects'[p].availableCredits + Purchased(p)'
            = projects[p].availableCredits + Purchased(p)]_vars

\* A purchase and then a retirement by one buyer have been written after
\* the seeded entries.
C21_Witness ==
  /\ Len(ledger) = Len(SeedLedger) + 2
  /\ ledger[Len(ledger) - 1].type = "purchase"
  /\ ledger[Len(ledger)].type = "retirement"
  /\ ledger[Len(ledger) - 1].toUserId = ledger[Len(ledger)].toUserId
  /\ ledger[Len(ledger) - 1].quantity > ledger[Len(ledger)].quantity
  /\ ledger[Len(ledger)].quantity > 0

\* C22: every ledger entry has quantity > 0.
C22_LedgerQuantitiesPositive ==
  \A i \in 1..Len(ledger) : ledger[i].quantity > 0

\* C23: issueCredits changes no project row (availableCredits and
\* totalCredits stay as they were) and no holding; it only appends batches
\* and at most one ledger entry, an issuance.
C23_IssueLeavesInventoryAlone ==
  [][\A p \in SeedProjectIds, q \in IssueQuantities :
       IssueCredits(p, q)
       => /\ projects' = projects
          /\ holdings' = holdings
          /\ alerts' = alerts
          /\ Len(credits') >= Len(credits)
          /\ SubSeq(credits', 1, Len(credits)) = credits
          /\ \/ ledger' = ledger
             \/ /\ Len(ledger') = Len(ledger) + 1
                /\ SubSeq(ledger', 1, Len(ledger)) = ledger
                /\ ledger'[Len(ledger')].type = "issuance"]_vars

\* An issuance of a positive quantity has written its batch and its ledger
\* entry.
C23_Witness ==
  /\ Len(ledger) > Len(SeedLedger)
  /\ ledger[Len(ledger)].type = "issuance"
  /\ ledger[Len(ledger)].quantity > 0
  /\ Len(credits) > Len(SeedCredits)
  /\ ret.status = "ok"
  /\ ret.serialNumbers # <<>>

\* The batches, ledger entries and holdings of one project.
OwnCredits(projectId) == SelectSeq(credits, LAMBDA c : c.projectId = projectId)

OwnEntries(projectId) == SelectSeq(ledger, LAMBDA e : e.projectId = projectId)

OwnHoldings(projectId) ==
  [k \in {h \in DOMAIN holdings : h[2] = projectId} |-> holdings[k]]

\* C24: projects are independent.  A step for project p leaves every other
\* project's row, batches, ledger entries and holdings as they were, and an
\* issuance for p that is refused would be refused as well by p's own
\* batches alone: its outcome does not depend on what was done for other
\* projects.
C24_ProjectsAreIndependent ==
  [][\A p \in ProjectIds, q \in IssueQuantities :
       (p \in DOMAIN projects /\ IssueCredits(p, q))
       => /\ \A o \in DOMAIN projects \ {p} :
               /\ projects'[o] = projects[o]
               /\ OwnCredits(o)' = OwnCredits(o)
               /\ OwnEntries(o)' = OwnEntries(o)
               /\ OwnHoldings(o)' = OwnHoldings(o)
          /\ ret'.status = "threw"
               => \E d \in LoopReadings(BatchSize(q)) :
                    /\ now' = d[Len(d)]
                    /\ ~InsertCredits(OwnCredits(p),
                                      NewCreditRows(p, projects[p], q, d))[2]]_vars

\* The project row with another integrity score.
Rescored(project, score) == [project EXCEPT !.integrityScore = score]

C26_HoldingRowsPersist ==
  [][/\ DOMAIN holdings \subseteq DOMAIN holdings'
     /\ \A s \in Callers :
          (pc[s] = "commit" /\ PurchaseCreditsCommit(s) /\ ret'.status = "ok")
          => DOMAIN holdings'
               = DOMAIN holdings \cup {<<call[s].buyerId, call[s].projectId>>}
     /\ \A p \in SeedProjectIds, q \in Quantities, b \in BuyerIds, r \in Reasons :
          RetireCredits(p, q, b, r) => DOMAIN holdings' = DOMAIN holdings]_vars

\* A buyer has bought credits and retired all of them: the ledger holds the
\* purchase and the retirement, and the holding row is there with quantity
\* zero.
C26_Witness ==
  /\ Len(ledger) = Len(SeedLedger) + 2
  /\ ledger[Len(ledger)].type = "retirement"
  /\ ledger[Len(ledger)].quantity > 0
  /\ LET k == <<ledger[Len(ledger)].toUserId, ledger[Len(ledger)].projectId>>
     IN k \in DOMAIN holdings /\ holdings[k].quantity = 0

\* Whether `rows` holds the rows of the ledger, each once, by falling
\* timestamp.
IsLedgerMostRecentFirst(rows) ==
  /\ Len(rows) = Len(ledger)
  /\ \A i \in 1..Len(ledger) : \E j \in 1..Len(rows) : rows[j] = ledger[i]
  /\ \A i, j \in 1..Len(rows) : i < j => rows[i].timestamp >= rows[j].timestamp

\* C27: getLedgerTransactions(page, pageSize) returns the entries at
\* positions (page-1)*pageSize .. page*pageSize-1 (counted from 0) of the
\* ledger ordered most recent first, as many of them as there are, and
\* total is the number of entries of the ledger.
C27_LedgerPageIsTheSlice ==
  [][\A page \in Pages, pageSize \in PageSizes :
       GetLedgerTransactions(page, pageSize)
       => /\ ret'.total = Len(ledger)
          /\ Len(ret'.transactions) <= pageSize
          /\ \E n \in 0..Len(ledger) : \E order \in [1..n -> 1..Len(ledger)] :
               LET rows == [i \in 1..n |-> ledger[order[i]]]
                   first == (page - 1) * pageSize
               IN /\ IsLedgerMostRecentFirst(rows)
                  /\ \A pos \in first..(page * pageSize - 1) :
                       IF pos + 1 <= Len(rows)
                       THEN /\ pos - first + 1 <= Len(ret'.transactions)
                            /\ ret'.transactions[pos - first + 1].id = rows[pos + 1].id
                            /\ ret'.transactions[pos - first + 1].timestamp
                                 = rows[pos + 1].timestamp
                       ELSE Len(ret'.transactions) < pos - first + 1]_vars

\* The second page of a ledger of three entries, two of them with the same
\* timestamp, has been returned: one entry, total three.
C27_Witness ==
  /\ Len(ledger) = 3
  /\ \E i, j \in 1..Len(ledger) : i # j /\ ledger[i].timestamp = ledger[j].timestamp
  /\ ret.status = "ok"
  /\ ret.total = 3
  /\ Len(ret.transactions) = 1
  /\ \E i \in 1..Len(ledger) :
       /\ ret.transactions[1].id = ledger[i].id
       /\ \A k \in 1..Len(ledger) : ledger[k].timestamp >= ledger[i].timestamp

\* C28: every accepted call returns.  issueCredits and retireCredits are
\* single steps; a purchaseCredits call that has passed its checks and is
\* about to send its transaction eventually returns to its caller, whatever
\* the other callers do.
C28_AcceptedCallsReturn ==
  \A s \in Callers : (pc[s] = "commit") ~> (pc[s] = "idle")

\* A purchase has returned its transaction id while another accepted
\* purchase is still in flight.
C28_Witness ==
  /\ InFlight # {}
  /\ Len(ledger) > Len(SeedLedger)
  /\ ledger[Len(ledger)].type = "purchase"
  /\ ret = ReturnedTransaction(Len(ledger))

\* C29: every number calculateIntegrityScoreFromDescription returns, the
\* score and each of the six parameters, is a whole number from 30 to 95.
C29_ScoresWithinRange ==
  ret.parameters # <<>>
  => /\ ret.score \in MIN_SCORE..MAX_SCORE
     /\ Len(ret.parameters) = Len(RuleSets)
     /\ \A k \in 1..Len(ret.parameters) : ret.parameters[k] \in MIN_SCORE..MAX_SCORE

\* A description full of additionality keywords and without any permanence
\* keyword has been scored: the first parameter was cut down to the upper
\* limit, the second lies below the base score.
C29_Witness ==
  /\ ret.status = "ok"
  /\ ret.parameters # <<>>
  /\ ret.parameters[1] = MAX_SCORE
  /\ ret.parameters[2] < BASE_SCORE
  /\ ret.score > BASE_SCORE

\* C30: a successful purchaseCredits appends exactly one ledger entry: a
\* purchase from the project's developer to the buyer, of the quantity
\* asked for, at the project's posted price, with totalValue = quantity *
\* pricePerCredit; the transactionId returned is the id of that entry.
C30_PurchaseEntry ==
  [][\A s \in Callers :
       (pc[s] = "commit" /\ PurchaseCreditsCommit(s) /\ ret'.status = "ok")
       => /\ Len(ledger') = Len(ledger) + 1
          /\ SubSeq(ledger', 1, Len(ledger)) = ledger
          /\ LET e == ledger'[Len(ledger')]
                 project == projects[call[s].projectId]
             IN /\ e.type = "purchase"
                /\ e.projectId = call[s].projectId
                /\ e.fromUserId = project.developerId
                /\ e.toUserId = call[s].buyerId
                /\ e.quantity = call[s].quantity
                /\ e.pricePerCredit = project.pricePerCredit
                /\ e.totalValue = call[s].quantity * project.pricePerCredit
                /\ ret'.transactionId = e.id]_vars

\* A purchase of more than one credit has been written at the posted price
\* and has returned the id of its entry.
C30_Witness ==
  /\ Len(ledger) > Len(SeedLedger)
  /\ LET e == ledger[Len(ledger)]
     IN /\ e.type = "purchase"
        /\ e.quantity > 1
        /\ e.pricePerCredit = projects[e.projectId].pricePerCredit
        /\ e.totalValue = e.quantity * e.pricePerCredit
        /\ ret.transactionId = e.id
  /\ ret.status = "ok"

\* C31: a successful issueCredits(p, q) appends exactly one ledger entry:
\* an issuance for p to the project's developer, with no fromUserId and
\* quantity q.
C31_IssuanceEntry ==
  [][\A p \in SeedProjectIds, q \in IssueQuantities :
       (IssueCredits(p, q) /\ ret'.status = "ok")
       => /\ Len(ledger') = Len(ledger) + 1
          /\ SubSeq(ledger', 1, Len(ledger)) = ledger
          /\ LET e == ledger'[Len(ledger')]
             IN /\ e.type = "issuance"
                /\ e.projectId = p
                /\ e.toUserId = projects[p].developerId
                /\ "fromUserId" \notin DOMAIN e
                /\ e.quantity = q]_vars

\* An issuance of a positive quantity has written its entry after the
\* seeded ones and has returned the serial of its batch.
C31_Witness ==
  /\ Len(ledger) > Len(SeedLedger)
  /\ ledger[Len(ledger)].type = "issuance"
  /\ ledger[Len(ledger)].quantity > 0
  /\ "fromUserId" \notin DOMAIN ledger[Len(ledger)]
  /\ ledger[Len(ledger)].toUserId \in Developers
  /\ ret.status = "ok"

\* C32: a successful issueCredits(p, q) with q > 0 creates between one and
\* five batches, all of project p, and returns exactly their serial numbers:
\* one per batch, in the order of creation, no two alike.
C32_IssuanceBatches ==
  [][\A p \in ProjectIds, q \in IssueQuantities :
       (/\ q > 0 /\ p \in DOMAIN projects /\ ret'.status = "ok"
        /\ UNCHANGED <<projects, holdings, alerts, pc>>
        /\ IssueCredits(p, q))
       => LET new == Appended(credits, credits')
          IN /\ Len(new) >= 1
             /\ Len(new) <= BatchCap
             /\ SubSeq(credits', 1, Len(credits)) = credits
             /\ Len(ret'.serialNumbers) = Len(new)
             /\ \A i \in 1..Len(new) :
                  /\ new[i].projectId = p
                  /\ ret'.serialNumbers[i] = new[i].serialNumber
             /\ \A i, j \in 1..Len(new) :
                  i # j => ret'.serialNumbers[i] # ret'.serialNumbers[j]]_vars

\* An issuance of more credits than the cap has returned as many serials
\* as the cap allows, those of the last batches of the table.
C32_Witness ==
  /\ ret.status = "ok"
  /\ Len(ret.serialNumbers) = BatchCap
  /\ Len(credits) >= BatchCap
  /\ credits[Len(credits)].serialNumber = ret.serialNumbers[BatchCap]

\* The place of a batch status in the life of a batch.
StatusRank(status) == CHOOSE i \in 1..Len(CreditStatus) : CreditStatus[i] = status

\* C33: a batch keeps its quantity and its serial number for ever, and its
\* status never moves backward along issued -> traded -> retired: in every
\* step each batch already in the table stays where it is with the same
\* quantity and serial and a status that is not earlier than before.
C33_BatchesAreFixed ==
  [][\A i \in 1..Len(credits) :
       /\ i <= Len(credits')
       /\ credits'[i].quantity = credits[i].quantity
       /\ credits'[i].serialNumber = credits[i].serialNumber
       /\ StatusRank(credits'[i].status) >= StatusRank(credits[i].status)]_vars

\* A purchase and an issuance have gone through after the batches were
\* seeded: the issuance has added a batch behind the seeded ones, which are
\* as they were.
C33_Witness ==
  /\ Len(credits) > Len(SeedCredits)
  /\ SubSeq(credits, 1, Len(SeedCredits)) = SeedCredits
  /\ \E i \in 1..Len(ledger) : i > Len(SeedLedger) /\ ledger[i].type = "purchase"
  /\ \E i \in 1..Len(ledger) : i > Len(SeedLedger) /\ ledger[i].type = "issuance"

\* C34: a successful retireCredits of q credits by a buyer raises by q the
\* retired total of the buyer's portfolio and the retired total of the
\* admin statistics.
C34_RetiredTotalsFollowRetirements ==
  [][\A p \in SeedProjectIds, q \in Quantities, b \in BuyerIds, r \in Reasons :
       (q > 0 /\ RetireCredits(p, q, b, r) /\ ret'.status = "ok")
       => /\ PortfolioCreditsRetired(b)' = PortfolioCreditsRetired(b) + q
          /\ AdminTotalCreditsRetired' = AdminTotalCreditsRetired + q]_vars

\* C35: purchaseCredits succeeds only against an active project: whenever
\* a purchase of a positive quantity commits, the project it buys from has
\* status active (not pending, not rejected).
C35_PurchaseOnlyFromActive ==
  [][\A s \in Callers :
       (/\ pc[s] = "commit" /\ call[s].quantity > 0
        /\ PurchaseCreditsCommit(s) /\ ret'.status = "ok")
       => projects[call[s].projectId].status = "active"]_vars

\* C36: every project registerProject creates starts with status pending
\* and with 0 <= availableCredits <= totalCredits, and with availableCredits
\* = totalCredits when the caller gives no availableCredits.
C36_RegisteredWithinBounds ==
  [][\A data \in RegisterInputs :
       (RegisterProject(data) /\ ret'.status = "ok")
       => LET row == projects'[ret'.projectId]
          IN /\ ret'.projectId \notin DOMAIN projects
             /\ row.status = "pending"
             /\ WithinBounds(row)
             /\ "availableCredits" \notin DOMAIN data
                  => row.availableCredits = row.totalCredits]_vars

====
